---- MODULE Spec2Model ----
(***************************************************************************)
(* bplus-tui: the action-driven reducer (App::update), the main select!    *)
(* loop that feeds it, the one-shot background tasks it spawns and the     *)
(* server-sent-event stream consumer (start_search_stream).                *)
(*                                                                         *)
(* Text is a sequence of one-character strings, so push, pop, push_str and *)
(* format! are sequence operations.  Option<T> is a sequence of length 0   *)
(* (None) or 1 (Some).  Vec indices stay 0-based as in the source; element *)
(* i of a Vec v is v[i + 1].                                               *)
(***************************************************************************)
EXTENDS Integers, Sequences, FiniteSets, Bags, TLC

VARIABLES
    app,      \* struct App (every field except the channel ends)
    queue,    \* the unbounded channel action_tx -> action_rx
    tasks,    \* bag of tokio tasks in flight (one-shot requests and streams)
    pc,       \* position of main's loop: "draw", "select" or "exit"
    last,     \* observation: the Action App::update applied last, with its effects
    tlast,    \* observation: the background-task step taken last
    run       \* observation: how far the Actions applied last follow the pattern
              \* SubmitSearch, SearchSourcesReceived, SearchStreamToken.., SearchDone

vars == <<app, queue, tasks, pc, last, tlast, run>>

----------------------------------------------------------------------------
(* Bounds of the model *)

MaxLen == 1
MaxFilter == 2
MaxMsgs == 3
MaxContent == 2
MaxTranscript == 6
MaxQueue == 2
MaxTasks == 2
MaxEvents == 2
MaxLogs == 3

----------------------------------------------------------------------------
(* Small helpers *)

None == <<>>

Some(x) == <<x>>

Max(a, b) == IF a > b THEN a ELSE b

\* v.pop(): drops the last element, no effect on an empty Vec / String
pop(v) == IF v = <<>> THEN v ELSE SubSeq(v, 1, Len(v) - 1)

\* v.last_mut(): index of the last element (0 when there is none)
last_mut(v) == Len(v)

\* The 0-based indices of a Vec of length n, ascending
Indices(n) == [i \in 1..n |-> i - 1]

\* str::to_lowercase: char::to_lowercase on the characters the model types
to_lowercase(t) ==
    [i \in 1..Len(t) |-> CASE t[i] = "A" -> "a"
                            [] t[i] = "B" -> "b"
                            [] OTHER -> t[i]]

\* str::contains(&str)
contains(hay, needle) ==
    \E i \in 0..(Len(hay) - Len(needle)) : SubSeq(hay, i + 1, i + Len(needle)) = needle

\* str::trim().is_empty(): char::is_whitespace on every character the model types
trim_is_empty(t) == \A i \in 1..Len(t) : t[i] \in {" ", "\n"}

\* Option<String>::unwrap_or_default
unwrap_or_default(o) == IF o = None THEN <<>> ELSE o[1]

\* Iterator::position(..).unwrap_or(0): 0-based index of the first element of
\* v that is among `matching`
position_or_0(v, matching) ==
    IF \E i \in 1..Len(v) : v[i] \in matching
    THEN (CHOOSE i \in 1..Len(v) :
             v[i] \in matching /\ \A j \in 1..(i - 1) : v[j] \notin matching) - 1
    ELSE 0

\* str::lines(): split at "\n"; a final line terminator yields no empty last line.
\* The text is cut after one of its inner terminators, the middle one, and the
\* lines of the two parts are joined, so that long outputs stay cheap to split.
RECURSIVE lines(_)
lines(t) ==
    IF t = <<>> THEN <<>>
    ELSE LET inner == {i \in 1..(Len(t) - 1) : t[i] = "\n"} IN
         IF inner = {}
         THEN <<IF t[Len(t)] = "\n" THEN SubSeq(t, 1, Len(t) - 1) ELSE t>>
         ELSE LET p == CHOOSE i \in inner :
                          Cardinality({x \in inner : x < i}) = Cardinality(inner) \div 2
              IN lines(SubSeq(t, 1, p)) \o lines(SubSeq(t, p + 1, Len(t)))

----------------------------------------------------------------------------
(* Literals of the source *)

URL_DEFAULT == <<"h","t","t","p",":","/","/","l","o","c","a","l","h","o","s","t">>

ErrorPrefix == <<"E","r","r","o","r",":"," ">>

WelcomeText == <<"Welcome to bplus search.">>

NewConversationText == <<"New conversation started.">>

LoadingText == <<"Loading conversation...">>

LLM_PROVIDERS == <<"lmstudio", "openai", "openrouter", "google">>

U16_MAX == 65535

LOG_CAP == 100

----------------------------------------------------------------------------
(* Values *)

\* enum AppAction: a variant and its payload (<<>> when it has none)
Act(type, arg) == [type |-> type, arg |-> arg]

\* struct ChatMessage
ChatMessage(role, content, sources) ==
    [role |-> role, content |-> content, sources |-> sources]

\* impl Default for AppForm
AppForm_default ==
    [id |-> <<>>, name |-> <<>>, desc |-> <<>>, cmd |-> <<>>, url |-> URL_DEFAULT,
     focus_idx |-> 0]

\* A spawned tokio task: its kind, the values it captured, its position and
\* how many Actions it has sent so far
Task(kind, id, prov) ==
    [kind |-> kind, id |-> id, prov |-> prov, pc |-> "start", n |-> 0, posted |-> 0,
     errored |-> FALSE]

\* App::new
App_new ==
    [should_quit |-> FALSE, current_screen |-> "Launcher", input_mode |-> "Normal",
     apps |-> <<>>, filtered_apps |-> <<>>, apps_idx |-> 0,
     launcher_logs |-> << <<"Ready.">> >>, is_loading_apps |-> FALSE,
     filter_input |-> <<>>, active_form |-> AppForm_default, adhoc_input |-> <<>>,
     search_input |-> <<>>,
     messages |-> <<ChatMessage("system", WelcomeText, <<>>)>>,
     is_searching |-> FALSE, search_sidebar |-> "Hidden",
     chat_scroll |-> 0, chat_auto_scroll |-> TRUE,
     current_convo_id |-> None, conversations |-> <<>>, conversation_idx |-> 0,
     llm_providers |-> LLM_PROVIDERS, selected_llm_provider |-> "lmstudio",
     models |-> <<>>, selected_model |-> "Loading...",
     search_providers |-> <<>>, settings_idx |-> 0]

\* What one call of App::update yields: the new state, the Actions it sent on
\* action_tx (in order) and the tasks it spawned (in order)
Result(s, send, spawn) == [app |-> s, send |-> send, spawn |-> spawn]

Only(s) == Result(s, <<>>, <<>>)

----------------------------------------------------------------------------
(* App: the launcher arms of update *)

\* App::get_selected_app, as Option<AppModel>
get_selected_app(s) ==
    IF s.filtered_apps = <<>> THEN None
    ELSE IF s.apps_idx >= Len(s.filtered_apps) THEN None
    ELSE IF s.filtered_apps[s.apps_idx + 1] >= Len(s.apps) THEN None
    ELSE Some(s.apps[s.filtered_apps[s.apps_idx + 1] + 1])

\* update_filter that leaves the selection where it was
update_filter_keeps_index(s) ==
    LET query == to_lowercase(s.filter_input)
        keep(i) ==
            \/ query = <<>>
            \/ contains(to_lowercase(s.apps[i + 1].name), query)
            \/ contains(to_lowercase(unwrap_or_default(s.apps[i + 1].description)), query)
    IN [s EXCEPT !.filtered_apps = SelectSeq(Indices(Len(s.apps)), keep)]

\* App::update_filter
update_filter(s) ==
    LET query == to_lowercase(s.filter_input)
        keep(i) ==
            \/ query = <<>>
            \/ contains(to_lowercase(s.apps[i + 1].name), query)
            \/ contains(to_lowercase(unwrap_or_default(s.apps[i + 1].description)), query)
    IN [s EXCEPT !.filtered_apps = SelectSeq(Indices(Len(s.apps)), keep),
                 !.apps_idx = 0]

Tick(s) == Only(s)

Quit_no_flag(s) == Only(s)

Quit(s) == Only([s EXCEPT !.should_quit = TRUE])

SwitchTab(s) ==
    IF s.input_mode = "Editing" THEN Only(s)
    ELSE IF s.current_screen = "Launcher"
    THEN Result([s EXCEPT !.input_mode = "SearchInput", !.current_screen = "Search"],
                IF s.search_providers = <<>>
                THEN <<Act("LoadSearchState", <<>>)>> ELSE <<>>,
                <<>>)
    ELSE Only([s EXCEPT !.input_mode = "Normal", !.current_screen = "Launcher"])

\* SelectNext that does not wrap around
SelectNext_no_wrap(s) ==
    IF s.filtered_apps # <<>>
    THEN Only([s EXCEPT !.apps_idx = s.apps_idx + 1])
    ELSE Only(s)

SelectNext(s) ==
    IF s.filtered_apps # <<>>
    THEN Only([s EXCEPT !.apps_idx = (s.apps_idx + 1) % Len(s.filtered_apps)])
    ELSE Only(s)

SelectPrev(s) ==
    IF s.filtered_apps # <<>>
    THEN Only([s EXCEPT !.apps_idx =
                 IF s.apps_idx = 0 THEN Len(s.filtered_apps) - 1 ELSE s.apps_idx - 1])
    ELSE Only(s)

LoadApps(s) ==
    Result([s EXCEPT !.is_loading_apps = TRUE], <<>>, <<Task("fetch_apps", None, "")>>)

\* AppsLoaded that forgets to recompute the filtered list
AppsLoaded_no_refresh(s, apps) ==
    Only([s EXCEPT !.apps = apps, !.is_loading_apps = FALSE])

AppsLoaded(s, apps) ==
    Only(update_filter([s EXCEPT !.apps = apps, !.is_loading_apps = FALSE]))

ToggleFilter(s) ==
    IF s.input_mode = "Filtering" THEN Only([s EXCEPT !.input_mode = "Normal"])
    ELSE Only([update_filter([s EXCEPT !.filter_input = <<>>])
                 EXCEPT !.input_mode = "Filtering"])

EnterFilterChar(s, c) ==
    Only(update_filter([s EXCEPT !.filter_input = Append(s.filter_input, c)]))

BackspaceFilter(s) ==
    Only(update_filter([s EXCEPT !.filter_input = pop(s.filter_input)]))

OpenAddModal(s) ==
    Only([s EXCEPT !.active_form = AppForm_default, !.input_mode = "Editing"])

OpenEditModal(s) ==
    LET sel == get_selected_app(s) IN
    IF sel = None THEN Only(s)
    ELSE Only([s EXCEPT !.active_form =
                            [id |-> sel[1].id, name |-> sel[1].name,
                             desc |-> unwrap_or_default(sel[1].description),
                             cmd |-> sel[1].command, url |-> sel[1].url,
                             focus_idx |-> 0],
                        !.input_mode = "Editing"])

CloseModal_to_filter(s) == Only([s EXCEPT !.input_mode = "Filtering"])

CloseModal(s) == Only([s EXCEPT !.input_mode = "Normal"])

CycleFormFocus(s) ==
    Only([s EXCEPT !.active_form.focus_idx = (s.active_form.focus_idx + 1) % 4])

FormChar(s, c) ==
    CASE s.active_form.focus_idx = 0 ->
            Only([s EXCEPT !.active_form.name = Append(s.active_form.name, c)])
      [] s.active_form.focus_idx = 1 ->
            Only([s EXCEPT !.active_form.desc = Append(s.active_form.desc, c)])
      [] s.active_form.focus_idx = 2 ->
            Only([s EXCEPT !.active_form.cmd = Append(s.active_form.cmd, c)])
      [] s.active_form.focus_idx = 3 ->
            Only([s EXCEPT !.active_form.url = Append(s.active_form.url, c)])
      [] OTHER -> Only(s)

FormBackspace(s) ==
    CASE s.active_form.focus_idx = 0 ->
            Only([s EXCEPT !.active_form.name = pop(s.active_form.name)])
      [] s.active_form.focus_idx = 1 ->
            Only([s EXCEPT !.active_form.desc = pop(s.active_form.desc)])
      [] s.active_form.focus_idx = 2 ->
            Only([s EXCEPT !.active_form.cmd = pop(s.active_form.cmd)])
      [] s.active_form.focus_idx = 3 ->
            Only([s EXCEPT !.active_form.url = pop(s.active_form.url)])
      [] OTHER -> Only(s)

\* The task captures whether the form creates (empty id) or updates
SubmitForm(s) ==
    Result([s EXCEPT !.input_mode = "Normal"], <<>>,
           <<Task(IF s.active_form.id = <<>> THEN "create_app" ELSE "update_app",
                  None, "")>>)

ConfirmDelete(s) ==
    IF get_selected_app(s) # None
    THEN Result(s, <<>>, <<Task("delete_app", None, "")>>)
    ELSE Only(s)

LaunchSelected(s) ==
    LET sel == get_selected_app(s) IN
    IF sel # None
    THEN Result([s EXCEPT !.launcher_logs =
                     Append(s.launcher_logs, <<"Executing '">> \o sel[1].name \o <<"'...">>)],
                <<>>, <<Task("launch_app", None, "")>>)
    ELSE Only(s)

\* LaunchResult that drains from the end of the log
LaunchResult_drops_newest(s, msg) ==
    LET pushed == s.launcher_logs \o lines(msg)
    IN Only([s EXCEPT !.launcher_logs =
                 IF Len(pushed) > LOG_CAP THEN SubSeq(pushed, 1, LOG_CAP)
                 ELSE pushed])

LaunchResult(s, msg) ==
    LET pushed == s.launcher_logs \o lines(msg)
        r == Len(pushed) - LOG_CAP
    IN Only([s EXCEPT !.launcher_logs =
                 IF Len(pushed) > LOG_CAP THEN SubSeq(pushed, r + 1, Len(pushed))
                 ELSE pushed])

OpenAdHocModal(s) ==
    Only([s EXCEPT !.adhoc_input = <<>>, !.input_mode = "AdHocCmd"])

SubmitAdHoc(s, cmd) ==
    Result([s EXCEPT !.input_mode = "Normal",
                     !.launcher_logs =
                         Append(s.launcher_logs, <<"Running ad-hoc: ">> \o cmd)],
           <<>>, <<Task("adhoc", None, "")>>)

----------------------------------------------------------------------------
(* App: the search arms of update *)

\* Spawns two tasks: conversations then providers, and the models of the
\* provider selected now
LoadSearchState(s) ==
    Result(s, <<>>,
           <<Task("load_search_state", None, ""),
             Task("fetch_models", None, s.selected_llm_provider)>>)

ConversationsLoaded(s, convos) == Only([s EXCEPT !.conversations = convos])

ProvidersLoaded(s, provs) == Only([s EXCEPT !.search_providers = provs])

\* ModelsLoaded that keeps the selection made in the old list
ModelsLoaded_keeps_selection(s, models) ==
    Only([s EXCEPT !.models = models])

ModelsLoaded(s, models) ==
    Only([s EXCEPT !.models = models,
                   !.selected_model =
                       IF models # <<>> THEN models[1].id ELSE "default"])

\* ToggleSearchSidebar that moves the focus only when the sidebar appears
ToggleSearchSidebar_keeps_focus(s) ==
    LET next == CASE s.search_sidebar = "Hidden" -> "History"
                  [] s.search_sidebar = "History" -> "Settings"
                  [] s.search_sidebar = "Settings" -> "Hidden"
    IN Only([s EXCEPT !.search_sidebar = next,
                      !.input_mode =
                          IF next # "Hidden" THEN "SearchSidebar" ELSE s.input_mode])

ToggleSearchSidebar(s) ==
    LET next == CASE s.search_sidebar = "Hidden" -> "History"
                  [] s.search_sidebar = "History" -> "Settings"
                  [] s.search_sidebar = "Settings" -> "Hidden"
    IN Only([s EXCEPT !.search_sidebar = next,
                      !.input_mode =
                          IF next # "Hidden" THEN "SearchSidebar" ELSE "SearchInput"])

\* CycleSearchFocus that does not look at the sidebar
CycleSearchFocus_skips_sidebar(s) ==
    Only([s EXCEPT !.input_mode =
             CASE s.input_mode = "SearchInput" -> "ChatHistory"
               [] s.input_mode = "SearchSidebar" -> "ChatHistory"
               [] s.input_mode = "ChatHistory" -> "SearchInput"
               [] OTHER -> "SearchInput"])

CycleSearchFocus(s) ==
    Only([s EXCEPT !.input_mode =
             CASE s.input_mode = "SearchInput" ->
                      (IF s.search_sidebar # "Hidden" THEN "SearchSidebar"
                       ELSE "ChatHistory")
               [] s.input_mode = "SearchSidebar" -> "ChatHistory"
               [] s.input_mode = "ChatHistory" -> "SearchInput"
               [] OTHER -> "SearchInput"])

\* SidebarNext without the extra entries (New Conversation; provider and model)
SidebarNext_no_sentinel(s) ==
    CASE s.search_sidebar = "History" ->
            Only([s EXCEPT !.conversation_idx =
                     (s.conversation_idx + 1) % Max(1, Len(s.conversations))])
      [] s.search_sidebar = "Settings" ->
            Only([s EXCEPT !.settings_idx =
                     (s.settings_idx + 1) % Max(1, Len(s.search_providers))])
      [] OTHER -> Only(s)

SidebarNext(s) ==
    CASE s.search_sidebar = "History" ->
            Only([s EXCEPT !.conversation_idx =
                     (s.conversation_idx + 1) % (Len(s.conversations) + 1)])
      [] s.search_sidebar = "Settings" ->
            Only([s EXCEPT !.settings_idx =
                     (s.settings_idx + 1) % (2 + Len(s.search_providers))])
      [] OTHER -> Only(s)

SidebarPrev(s) ==
    CASE s.search_sidebar = "History" ->
            Only([s EXCEPT !.conversation_idx =
                     IF s.conversation_idx = 0 THEN (Len(s.conversations) + 1) - 1
                     ELSE s.conversation_idx - 1])
      [] s.search_sidebar = "Settings" ->
            Only([s EXCEPT !.settings_idx =
                     IF s.settings_idx = 0 THEN (2 + Len(s.search_providers)) - 1
                     ELSE s.settings_idx - 1])
      [] OTHER -> Only(s)

\* SidebarSelect with the History sidebar shown
SidebarSelect_History(s) ==
    IF s.conversation_idx = 0
    THEN Result(s, <<Act("NewConversation", <<>>)>>, <<>>)
    ELSE IF s.conversation_idx - 1 < Len(s.conversations)
    THEN Result(s, <<Act("LoadConversation", s.conversations[s.conversation_idx].id)>>,
                <<>>)
    ELSE Only(s)

\* SidebarSelect with the Settings sidebar shown
SidebarSelect_Settings(s) ==
    IF s.settings_idx = 0
    THEN LET curr_pos == position_or_0(s.llm_providers, {s.selected_llm_provider})
             next_pos == (curr_pos + 1) % Len(s.llm_providers)
             p == s.llm_providers[next_pos + 1]
         IN Result([s EXCEPT !.selected_llm_provider = p], <<>>,
                   <<Task("fetch_models", None, p)>>)
    ELSE IF s.settings_idx = 1
    THEN IF s.models # <<>>
         THEN LET is_sel == {s.models[i] : i \in {k \in 1..Len(s.models) :
                                                    s.models[k].id = s.selected_model}}
                  curr == position_or_0(s.models, is_sel)
                  next == (curr + 1) % Len(s.models)
              IN Only([s EXCEPT !.selected_model = s.models[next + 1].id])
         ELSE Only(s)
    ELSE IF s.settings_idx - 2 < Len(s.search_providers)
    THEN Only([s EXCEPT !.search_providers[s.settings_idx - 1].is_enabled =
                            ~s.search_providers[s.settings_idx - 1].is_enabled])
    ELSE Only(s)

SidebarSelect(s) ==
    CASE s.search_sidebar = "History" -> SidebarSelect_History(s)
      [] s.search_sidebar = "Settings" -> SidebarSelect_Settings(s)
      [] OTHER -> Only(s)

NewConversation_keeps_transcript(s) ==
    Only([s EXCEPT !.current_convo_id = None,
                   !.messages = Append(s.messages,
                                       ChatMessage("system", NewConversationText, <<>>)),
                   !.chat_auto_scroll = TRUE,
                   !.search_sidebar = "Hidden",
                   !.input_mode = "SearchInput"])

NewConversation(s) ==
    Only([s EXCEPT !.current_convo_id = None,
                   !.messages = <<ChatMessage("system", NewConversationText, <<>>)>>,
                   !.chat_auto_scroll = TRUE,
                   !.search_sidebar = "Hidden",
                   !.input_mode = "SearchInput"])

ConversationCreated(s, id) ==
    Result([s EXCEPT !.current_convo_id = Some(id)], <<>>,
           <<Task("fetch_conversations", None, "")>>)

LoadConversation(s, id) ==
    Result([s EXCEPT !.current_convo_id = Some(id),
                     !.messages = <<ChatMessage("system", LoadingText, <<>>)>>,
                     !.chat_auto_scroll = TRUE,
                     !.input_mode = "ChatHistory"],
           <<>>, <<Task("load_conversation", Some(id), "")>>)

\* json is the decoded reply: json.messages is None when "messages" is no
\* array, else the messages with role, content and sources as decoded
ConversationLoaded(s, json) ==
    Only([s EXCEPT !.messages = IF json.messages = None THEN <<>> ELSE json.messages[1],
                   !.chat_auto_scroll = TRUE])

\* u16::saturating_sub / saturating_add of |delta|
ScrollChat(s, delta) ==
    Only([s EXCEPT !.chat_auto_scroll = FALSE,
                   !.chat_scroll =
                       IF delta < 0 THEN Max(0, s.chat_scroll - (0 - delta))
                       ELSE IF s.chat_scroll + delta > U16_MAX THEN U16_MAX
                       ELSE s.chat_scroll + delta])

EnterSearchChar(s, c) == Only([s EXCEPT !.search_input = Append(s.search_input, c)])

DeleteSearchChar(s) == Only([s EXCEPT !.search_input = pop(s.search_input)])

\* SubmitSearch without the `!self.is_searching` half of its guard
SubmitSearch_unguarded(s) ==
    IF ~trim_is_empty(s.search_input)
    THEN Result([s EXCEPT !.messages =
                     s.messages \o <<ChatMessage("user", s.search_input, <<>>),
                                     ChatMessage("assistant", <<>>, <<>>)>>,
                          !.search_input = <<>>,
                          !.is_searching = TRUE,
                          !.chat_auto_scroll = TRUE],
                <<>>, <<Task("search_stream", s.current_convo_id, "")>>)
    ELSE Only(s)

\* The stream task captures the query, the model, the provider and the enabled
\* source providers for the request body, and current_convo_id, which alone
\* decides what it does
SubmitSearch(s) ==
    IF ~trim_is_empty(s.search_input) /\ ~s.is_searching
    THEN Result([s EXCEPT !.messages =
                     s.messages \o <<ChatMessage("user", s.search_input, <<>>),
                                     ChatMessage("assistant", <<>>, <<>>)>>,
                          !.search_input = <<>>,
                          !.is_searching = TRUE,
                          !.chat_auto_scroll = TRUE],
                <<>>, <<Task("search_stream", s.current_convo_id, "")>>)
    ELSE Only(s)

\* SearchSourcesReceived that adds the batch to the sources already there
SearchSourcesReceived_appends(s, sources) ==
    IF s.messages # <<>> /\ s.messages[last_mut(s.messages)].role = "assistant"
    THEN Only([s EXCEPT !.messages[last_mut(s.messages)].sources =
                            s.messages[last_mut(s.messages)].sources \o sources])
    ELSE Only(s)

SearchSourcesReceived(s, sources) ==
    IF s.messages # <<>> /\ s.messages[last_mut(s.messages)].role = "assistant"
    THEN Only([s EXCEPT !.messages[last_mut(s.messages)].sources = sources])
    ELSE Only(s)

\* SearchStreamToken that puts the fragment in front of the content
SearchStreamToken_prepend(s, text) ==
    IF s.messages # <<>> /\ s.messages[last_mut(s.messages)].role = "assistant"
    THEN Only([s EXCEPT !.messages[last_mut(s.messages)].content =
                            text \o s.messages[last_mut(s.messages)].content])
    ELSE Only(s)

\* SearchStreamToken that writes to the last message whatever its role
SearchStreamToken_any_role(s, text) ==
    IF s.messages # <<>>
    THEN Only([s EXCEPT !.messages[last_mut(s.messages)].content =
                            s.messages[last_mut(s.messages)].content \o text])
    ELSE Only(s)

SearchStreamToken(s, text) ==
    IF s.messages # <<>> /\ s.messages[last_mut(s.messages)].role = "assistant"
    THEN Only([s EXCEPT !.messages[last_mut(s.messages)].content =
                            s.messages[last_mut(s.messages)].content \o text])
    ELSE Only(s)

\* SearchError that reports only while a query is running
SearchError_only_when_busy(s, err) ==
    IF s.is_searching
    THEN Only([s EXCEPT !.messages =
                   Append(s.messages, ChatMessage("system", ErrorPrefix \o err, <<>>)),
                        !.is_searching = FALSE])
    ELSE Only(s)

SearchError(s, err) ==
    Only([s EXCEPT !.messages =
                       Append(s.messages, ChatMessage("system", ErrorPrefix \o err, <<>>)),
                   !.is_searching = FALSE])

\* SearchDone that follows the end of the answer again
SearchDone_refollows(s) ==
    Only([s EXCEPT !.is_searching = FALSE, !.chat_auto_scroll = TRUE])

SearchDone(s) == Only([s EXCEPT !.is_searching = FALSE])

\* App::update: the match over the variants
update(s, action) ==
    CASE action.type = "Tick" -> Tick(s)
      [] action.type = "Quit" -> Quit(s)
      [] action.type = "SwitchTab" -> SwitchTab(s)
      [] action.type = "SelectNext" -> SelectNext(s)
      [] action.type = "SelectPrev" -> SelectPrev(s)
      [] action.type = "LoadApps" -> LoadApps(s)
      [] action.type = "AppsLoaded" -> AppsLoaded(s, action.arg)
      [] action.type = "ToggleFilter" -> ToggleFilter(s)
      [] action.type = "EnterFilterChar" -> EnterFilterChar(s, action.arg)
      [] action.type = "BackspaceFilter" -> BackspaceFilter(s)
      [] action.type = "OpenAddModal" -> OpenAddModal(s)
      [] action.type = "OpenEditModal" -> OpenEditModal(s)
      [] action.type = "ConfirmDelete" -> ConfirmDelete(s)
      [] action.type = "CloseModal" -> CloseModal(s)
      [] action.type = "CycleFormFocus" -> CycleFormFocus(s)
      [] action.type = "FormChar" -> FormChar(s, action.arg)
      [] action.type = "FormBackspace" -> FormBackspace(s)
      [] action.type = "SubmitForm" -> SubmitForm(s)
      [] action.type = "LaunchSelected" -> LaunchSelected(s)
      [] action.type = "LaunchResult" -> LaunchResult(s, action.arg)
      [] action.type = "OpenAdHocModal" -> OpenAdHocModal(s)
      [] action.type = "SubmitAdHoc" -> SubmitAdHoc(s, action.arg)
      [] action.type = "ToggleSearchSidebar" -> ToggleSearchSidebar(s)
      [] action.type = "CycleSearchFocus" -> CycleSearchFocus(s)
      [] action.type = "SidebarNext" -> SidebarNext(s)
      [] action.type = "SidebarPrev" -> SidebarPrev(s)
      [] action.type = "SidebarSelect" -> SidebarSelect(s)
      [] action.type = "NewConversation" -> NewConversation(s)
      [] action.type = "LoadSearchState" -> LoadSearchState(s)
      [] action.type = "ConversationsLoaded" -> ConversationsLoaded(s, action.arg)
      [] action.type = "ProvidersLoaded" -> ProvidersLoaded(s, action.arg)
      [] action.type = "ModelsLoaded" -> ModelsLoaded(s, action.arg)
      [] action.type = "ConversationCreated" -> ConversationCreated(s, action.arg)
      [] action.type = "LoadConversation" -> LoadConversation(s, action.arg)
      [] action.type = "ConversationLoaded" -> ConversationLoaded(s, action.arg)
      [] action.type = "EnterSearchChar" -> EnterSearchChar(s, action.arg)
      [] action.type = "DeleteSearchChar" -> DeleteSearchChar(s)
      [] action.type = "SubmitSearch" -> SubmitSearch(s)
      [] action.type = "ScrollChat" -> ScrollChat(s, action.arg)
      [] action.type = "SearchSourcesReceived" -> SearchSourcesReceived(s, action.arg)
      [] action.type = "SearchStreamToken" -> SearchStreamToken(s, action.arg)
      [] action.type = "SearchError" -> SearchError(s, action.arg)
      [] action.type = "SearchDone" -> SearchDone(s)

----------------------------------------------------------------------------
(* ui::draw: the one write it makes to App *)

\* markdown_to_text(content).len() for text without markup: nothing for an
\* empty text, else one line and one more per line break
markdown_to_text_len(content) ==
    IF content = <<>> THEN 0
    ELSE 1 + Cardinality({i \in 1..Len(content) : content[i] = "\n"})

\* messages_visual.len() in render_search
RECURSIVE messages_visual_len(_)
messages_visual_len(msgs) ==
    IF msgs = <<>> THEN 4
    ELSE LET m == Head(msgs) IN
         1 + markdown_to_text_len(m.content)
           + (IF m.sources # <<>> THEN 2 + Len(m.sources) ELSE 0)
           + 1 + messages_visual_len(Tail(msgs))

\* render_search's scroll clamp; view_height is what the terminal leaves
render_search(s, view_height) ==
    LET total_lines == messages_visual_len(s.messages) % (U16_MAX + 1)
        max_scroll == Max(0, total_lines - view_height)
    IN IF s.chat_auto_scroll THEN [s EXCEPT !.chat_scroll = max_scroll]
       ELSE IF s.chat_scroll > max_scroll THEN [s EXCEPT !.chat_scroll = max_scroll]
       ELSE s

draw(s, view_height) ==
    IF s.current_screen = "Search" THEN render_search(s, view_height) ELSE s

----------------------------------------------------------------------------
(* main: key dispatch *)

Key(code, ch, ctrl) == [code |-> code, ch |-> ch, ctrl |-> ctrl]

IsChar(key, c) == key.code = "Char" /\ key.ch = c

\* The match on app.input_mode: the Action a key maps to (None: unmapped, or
\* one of the two AdHocCmd keys that edit adhoc_input in place)
key_action(s, key) ==
    CASE s.input_mode = "Normal" ->
            (CASE key.code = "Tab" -> Some(Act("SwitchTab", <<>>))
               [] IsChar(key, "q") -> Some(Act("Quit", <<>>))
               [] OTHER ->
                    IF s.current_screen = "Launcher"
                    THEN CASE key.code = "Down" \/ IsChar(key, "j") -> Some(Act("SelectNext", <<>>))
                           [] key.code = "Up" \/ IsChar(key, "k") -> Some(Act("SelectPrev", <<>>))
                           [] key.code = "Enter" -> Some(Act("LaunchSelected", <<>>))
                           [] IsChar(key, "/") -> Some(Act("ToggleFilter", <<>>))
                           [] IsChar(key, "a") -> Some(Act("OpenAddModal", <<>>))
                           [] IsChar(key, "e") -> Some(Act("OpenEditModal", <<>>))
                           [] IsChar(key, "d") -> Some(Act("ConfirmDelete", <<>>))
                           [] IsChar(key, ":") -> Some(Act("OpenAdHocModal", <<>>))
                           [] OTHER -> None
                    ELSE None)
      [] s.input_mode = "SearchInput" ->
            (CASE key.code = "Esc" -> Some(Act("SwitchTab", <<>>))
               [] key.code = "Tab" -> Some(Act("CycleSearchFocus", <<>>))
               [] IsChar(key, "s") /\ key.ctrl -> Some(Act("ToggleSearchSidebar", <<>>))
               [] key.code = "Enter" -> Some(Act("SubmitSearch", <<>>))
               [] key.code = "Backspace" -> Some(Act("DeleteSearchChar", <<>>))
               [] key.code = "Char" -> Some(Act("EnterSearchChar", key.ch))
               [] OTHER -> None)
      [] s.input_mode = "SearchSidebar" ->
            (CASE key.code = "Esc" -> Some(Act("SwitchTab", <<>>))
               [] key.code = "Tab" -> Some(Act("CycleSearchFocus", <<>>))
               [] IsChar(key, "s") /\ key.ctrl -> Some(Act("ToggleSearchSidebar", <<>>))
               [] key.code = "Down" \/ IsChar(key, "j") -> Some(Act("SidebarNext", <<>>))
               [] key.code = "Up" \/ IsChar(key, "k") -> Some(Act("SidebarPrev", <<>>))
               [] key.code = "Enter" \/ IsChar(key, " ") -> Some(Act("SidebarSelect", <<>>))
               [] OTHER -> None)
      [] s.input_mode = "ChatHistory" ->
            (CASE key.code = "Esc" -> Some(Act("SwitchTab", <<>>))
               [] key.code = "Tab" -> Some(Act("CycleSearchFocus", <<>>))
               [] IsChar(key, "s") /\ key.ctrl -> Some(Act("ToggleSearchSidebar", <<>>))
               [] key.code = "Up" \/ IsChar(key, "k") -> Some(Act("ScrollChat", -1))
               [] key.code = "Down" \/ IsChar(key, "j") -> Some(Act("ScrollChat", 1))
               [] key.code = "PageUp" -> Some(Act("ScrollChat", -10))
               [] key.code = "PageDown" -> Some(Act("ScrollChat", 10))
               [] OTHER -> None)
      [] s.input_mode = "Filtering" ->
            (CASE key.code = "Enter" \/ key.code = "Esc" -> Some(Act("ToggleFilter", <<>>))
               [] key.code = "Backspace" -> Some(Act("BackspaceFilter", <<>>))
               [] key.code = "Char" -> Some(Act("EnterFilterChar", key.ch))
               [] OTHER -> None)
      [] s.input_mode = "Editing" ->
            (CASE key.code = "Esc" -> Some(Act("CloseModal", <<>>))
               [] key.code = "Tab" -> Some(Act("CycleFormFocus", <<>>))
               [] key.code = "Enter" -> Some(Act("SubmitForm", <<>>))
               [] key.code = "Backspace" -> Some(Act("FormBackspace", <<>>))
               [] key.code = "Char" -> Some(Act("FormChar", key.ch))
               [] OTHER -> None)
      [] s.input_mode = "AdHocCmd" ->
            (CASE key.code = "Esc" -> Some(Act("CloseModal", <<>>))
               [] key.code = "Enter" -> Some(Act("SubmitAdHoc", s.adhoc_input))
               [] OTHER -> None)

\* The two AdHocCmd keys that write app.adhoc_input without an Action
adhoc_edit(s, key) ==
    IF s.input_mode = "AdHocCmd" /\ key.code = "Backspace"
    THEN [s EXCEPT !.adhoc_input = pop(s.adhoc_input)]
    ELSE IF s.input_mode = "AdHocCmd" /\ key.code = "Char"
    THEN [s EXCEPT !.adhoc_input = Append(s.adhoc_input, key.ch)]
    ELSE s

----------------------------------------------------------------------------
(* The state machine: main's loop *)

NoAct == Act("-", <<>>)

NoLast == [action |-> NoAct, send |-> <<>>, spawn |-> <<>>]

NoTLast == [task |-> Task("-", None, ""), event |-> "-", ok |-> TRUE, sent |-> <<>>,
            done |-> FALSE]

RECURSIVE SeqToBag(_)
SeqToBag(seq) ==
    IF seq = <<>> THEN EmptyBag ELSE SetToBag({Head(seq)}) (+) SeqToBag(Tail(seq))

\* The model's bounds on what the user types and on what is in flight
Within(s, q, tk) ==
    /\ Len(s.search_input) <= MaxLen
    /\ Len(s.filter_input) <= MaxFilter
    /\ Len(s.adhoc_input) <= MaxLen
    /\ Len(s.active_form.name) <= MaxLen
    /\ Len(s.active_form.desc) <= MaxLen
    /\ Len(s.active_form.cmd) <= MaxLen
    /\ Len(s.active_form.url) <= Len(URL_DEFAULT)
    /\ Len(s.messages) <= MaxTranscript
    /\ \A i \in 1..Len(s.messages) :
          s.messages[i].role = "assistant" => Len(s.messages[i].content) <= MaxContent
    /\ Len(s.launcher_logs) <= MaxLogs
    /\ Len(q) <= MaxQueue
    /\ BagCardinality(tk) <= MaxTasks

NoRun == [phase |-> "none", sources |-> <<>>, content |-> <<>>]

\* How far the Actions applied so far, ending with `action` applied in state s,
\* follow the pattern: an accepted SubmitSearch, one SearchSourcesReceived(S),
\* SearchStreamToken(t1) .. SearchStreamToken(tn), SearchDone, nothing else between
Observe(r, s, action) ==
    CASE action.type = "SubmitSearch" ->
            IF ~s.is_searching /\ ~trim_is_empty(s.search_input)
            THEN [NoRun EXCEPT !.phase = "submitted"] ELSE NoRun
      [] action.type = "SearchSourcesReceived" ->
            IF r.phase = "submitted"
            THEN [r EXCEPT !.phase = "sources", !.sources = action.arg] ELSE NoRun
      [] action.type = "SearchStreamToken" ->
            IF r.phase \in {"sources", "tokens"}
            THEN [r EXCEPT !.phase = "tokens", !.content = r.content \o action.arg]
            ELSE NoRun
      [] action.type = "SearchDone" ->
            IF r.phase = "tokens" THEN [r EXCEPT !.phase = "done"] ELSE NoRun
      [] OTHER -> NoRun

\* app.update(action).await, then the loop's `if app.should_quit { break; }`;
\* q is what is left of the channel when the call starts
Apply(action, q, next_pc) ==
    LET r == update(app, action) IN
    /\ Within(r.app, q \o r.send, tasks (+) SeqToBag(r.spawn))
    /\ app' = r.app
    /\ queue' = q \o r.send
    /\ tasks' = tasks (+) SeqToBag(r.spawn)
    /\ last' = [action |-> action, send |-> r.send, spawn |-> r.spawn]
    /\ tlast' = NoTLast
    /\ run' = Observe(run, app, action)
    /\ pc' = IF next_pc = "draw" /\ r.app.should_quit THEN "exit" ELSE next_pc

\* App::new, then main's two sends before the loop
Init ==
    /\ app = App_new
    /\ queue = <<Act("LoadApps", <<>>), Act("LoadSearchState", <<>>)>>
    /\ tasks = EmptyBag
    /\ pc = "draw"
    /\ last = NoLast
    /\ tlast = NoTLast
    /\ run = NoRun

\* terminal.draw(|f| ui::draw(f, &mut app))
Draw(heights) ==
    /\ pc = "draw"
    /\ \E h \in heights : app' = draw(app, h)
    /\ pc' = "select"
    /\ last' = NoLast
    /\ tlast' = NoTLast
    /\ UNCHANGED <<queue, tasks, run>>

\* select!: interval.tick()
TickBranch ==
    /\ pc = "select"
    /\ Apply(Act("Tick", <<>>), queue, "draw")

\* select!: event::poll found nothing, or an event that is no key
PollIdle ==
    /\ pc = "select"
    /\ pc' = IF app.should_quit THEN "exit" ELSE "draw"
    /\ last' = NoLast
    /\ tlast' = NoTLast
    /\ UNCHANGED <<app, queue, tasks, run>>

\* The match on app.input_mode for one key
Dispatch(key) ==
    LET a == key_action(app, key) IN
    IF a # None THEN Apply(a[1], queue, "draw")
    ELSE /\ Within(adhoc_edit(app, key), queue, tasks)
         /\ app' = adhoc_edit(app, key)
         /\ pc' = IF app.should_quit THEN "exit" ELSE "draw"
         /\ last' = NoLast
         /\ tlast' = NoTLast
         /\ UNCHANGED <<queue, tasks, run>>

\* select!: a key event.  Ctrl+q applies Quit first and then falls through to
\* the match on the input mode with the same key
KeyBranch(keys) ==
    /\ pc = "select"
    /\ \E key \in keys :
          IF IsChar(key, "q") /\ key.ctrl
          THEN Apply(Act("Quit", <<>>), queue, "ctrl_q")
          ELSE Dispatch(key)

\* The rest of the Ctrl+q event: the match on the input mode
CtrlQDispatch ==
    /\ pc = "ctrl_q"
    /\ Dispatch(Key("Char", "q", TRUE))

\* select!: Some(action) = app.action_rx.recv()
RecvBranch ==
    /\ pc = "select"
    /\ queue # <<>>
    /\ Apply(Head(queue), Tail(queue), "draw")

----------------------------------------------------------------------------
(* The background tasks.  A step of a task is one request of it completing  *)
(* (ok or not) together with the sends that follow it in the task's code.   *)

\* The error text `e` of a failed request
ErrText == <<"e">>

\* One step of task t: it sends `sent` on its clone of action_tx and either
\* ends (done) or goes on as `next`
TaskStep(t, event, ok, sent, done, next) ==
    /\ BagIn(t, tasks)
    /\ Len(queue \o sent) <= MaxQueue
    /\ queue' = queue \o sent
    /\ tasks' = IF done THEN tasks (-) SetToBag({t})
                ELSE (tasks (-) SetToBag({t})) (+) SetToBag({next})
    /\ tlast' = [task |-> t, event |-> event, ok |-> ok, sent |-> sent, done |-> done]
    /\ last' = NoLast
    /\ UNCHANGED <<app, pc, run>>

InFlight(kind) == {t \in BagToSet(tasks) : t.kind = kind}

\* LoadApps: api::fetch_apps()
fetch_apps_task(replies) ==
    \E t \in InFlight("fetch_apps") :
       \/ \E apps \in replies :
             TaskStep(t, "fetch_apps", TRUE, <<Act("AppsLoaded", apps)>>, TRUE, t)
       \/ TaskStep(t, "fetch_apps", FALSE,
                   <<Act("LaunchResult", <<"Error fetching apps: ">> \o ErrText)>>, TRUE, t)

\* SubmitForm: api::create_app or api::update_app
submit_form_task ==
    \E t \in InFlight("create_app") \cup InFlight("update_app") :
       \/ TaskStep(t, t.kind, TRUE, <<Act("LoadApps", <<>>)>>, TRUE, t)
       \/ TaskStep(t, t.kind, FALSE,
                   <<Act("LaunchResult", ErrorPrefix \o ErrText)>>, TRUE, t)

\* ConfirmDelete: `let _ = api::delete_app(&id).await;` then LoadApps either way
delete_app_task ==
    \E t \in InFlight("delete_app") : \E ok \in BOOLEAN :
       TaskStep(t, "delete_app", ok, <<Act("LoadApps", <<>>)>>, TRUE, t)

\* LaunchSelected: api::launch_app; outputs are the texts the Ok arm formats
launch_app_task(outputs) ==
    \E t \in InFlight("launch_app") :
       \/ \E out \in outputs :
             TaskStep(t, "launch_app", TRUE, <<Act("LaunchResult", out)>>, TRUE, t)
       \/ TaskStep(t, "launch_app", FALSE,
                   <<Act("LaunchResult", <<"API Error: ">> \o ErrText)>>, TRUE, t)

\* SubmitAdHoc: create_app, then launch_app and delete_app, as one step
adhoc_task(outputs) ==
    \E t \in InFlight("adhoc") :
       \/ \E out \in outputs :
             TaskStep(t, "adhoc", TRUE, <<Act("LaunchResult", out)>>, TRUE, t)
       \/ TaskStep(t, "launch_app", FALSE,
                   <<Act("LaunchResult", <<"Exec Error: ">> \o ErrText)>>, TRUE, t)
       \/ TaskStep(t, "create_app", FALSE,
                   <<Act("LaunchResult", <<"AdHoc Error: ">> \o ErrText)>>, TRUE, t)

\* LoadSearchState, first task: fetch_conversations, then fetch_providers_list;
\* each `if let Ok(..)` sends on success and does nothing on failure
load_search_state_task(convo_replies, provider_replies) ==
    \E t \in InFlight("load_search_state") :
       \/ /\ t.pc = "start"
          /\ \/ \E c \in convo_replies :
                   TaskStep(t, "fetch_conversations", TRUE,
                            <<Act("ConversationsLoaded", c)>>, FALSE,
                            [t EXCEPT !.pc = "providers", !.posted = 1])
             \/ TaskStep(t, "fetch_conversations", FALSE, <<>>, FALSE,
                         [t EXCEPT !.pc = "providers"])
       \/ /\ t.pc = "providers"
          /\ \/ \E p \in provider_replies :
                   TaskStep(t, "fetch_providers_list", TRUE,
                            <<Act("ProvidersLoaded", p)>>, TRUE, t)
             \/ TaskStep(t, "fetch_providers_list", FALSE, <<>>, TRUE, t)

\* LoadSearchState, second task, and SidebarSelect on the provider row:
\* api::fetch_models(&prov); model_replies[prov] are the lists the backend may give
fetch_models_task(model_replies) ==
    \E t \in InFlight("fetch_models") :
       \/ \E m \in model_replies[t.prov] :
             TaskStep(t, "fetch_models", TRUE, <<Act("ModelsLoaded", m)>>, TRUE, t)
       \/ TaskStep(t, "fetch_models", FALSE, <<>>, TRUE, t)

\* ConversationCreated: api::fetch_conversations()
fetch_conversations_task(convo_replies) ==
    \E t \in InFlight("fetch_conversations") :
       \/ \E c \in convo_replies :
             TaskStep(t, "fetch_conversations", TRUE,
                      <<Act("ConversationsLoaded", c)>>, TRUE, t)
       \/ TaskStep(t, "fetch_conversations", FALSE, <<>>, TRUE, t)

\* LoadConversation: api::load_conversation(id)
load_conversation_task(transcripts) ==
    \E t \in InFlight("load_conversation") :
       \/ \E json \in transcripts :
             TaskStep(t, "load_conversation", TRUE,
                      <<Act("ConversationLoaded", json)>>, TRUE, t)
       \/ TaskStep(t, "load_conversation", FALSE,
                   <<Act("SearchError", <<"Failed to load chat">>)>>, TRUE, t)

----------------------------------------------------------------------------
(* api::start_search_stream, inside the task SubmitSearch spawns *)

\* 1. Create or use conversation: with no conversation id the task creates
\* one and sends ConversationCreated; `?` returns the error to the spawning
\* closure, which sends SearchError
stream_create(new_ids) ==
    \E t \in InFlight("search_stream") :
       /\ t.pc = "start"
       /\ t.id = None
       /\ \/ \E new_id \in new_ids :
                TaskStep(t, "create", TRUE, <<Act("ConversationCreated", new_id)>>,
                         FALSE, [t EXCEPT !.pc = "open", !.id = Some(new_id)])
          \/ TaskStep(t, "create", FALSE, <<Act("SearchError", ErrText)>>, TRUE, t)

\* 2. Start stream: the POST of the query
stream_open ==
    \E t \in InFlight("search_stream") :
       /\ \/ t.pc = "start" /\ t.id # None
          \/ t.pc = "open"
       /\ \/ TaskStep(t, "open", TRUE, <<>>, FALSE, [t EXCEPT !.pc = "events"])
          \/ TaskStep(t, "open", FALSE, <<Act("SearchError", ErrText)>>, TRUE, t)

\* One turn of `while let Some(event) = stream.next().await`.  An event is
\* [name, data]; data is the decoded payload, None when it does not decode
\* (from_str fails, or data["text"] is no string); the step then records
\* ok = FALSE
stream_event(events) ==
    \E t \in InFlight("search_stream") :
       /\ t.pc = "events"
       /\ t.n < MaxEvents
       /\ \E evt \in events :
             LET next == [t EXCEPT !.n = t.n + 1] IN
             CASE evt.name = "results" ->
                    TaskStep(t, evt.name, evt.data # None,
                             IF evt.data # None
                             THEN <<Act("SearchSourcesReceived", evt.data[1])>>
                             ELSE <<>>,
                             FALSE, next)
               [] evt.name = "summary-chunk" ->
                    TaskStep(t, evt.name, evt.data # None,
                             IF evt.data # None
                             THEN <<Act("SearchStreamToken", evt.data[1])>>
                             ELSE <<>>,
                             FALSE, next)
               [] evt.name = "error" ->
                    TaskStep(t, evt.name, TRUE, <<Act("SearchError", evt.data[1])>>,
                             FALSE, [next EXCEPT !.errored = TRUE])
               [] evt.name = "summary-done" ->
                    TaskStep(t, evt.name, TRUE, <<Act("SearchDone", <<>>)>>, TRUE, t)
               [] evt.name = "Err" ->
                    TaskStep(t, evt.name, FALSE, <<Act("SearchError", ErrText)>>, TRUE, t)
               [] OTHER ->
                    TaskStep(t, evt.name, TRUE, <<>>, FALSE, next)

\* stream.next() yields None: the loop ends and the function returns Ok(())
stream_end ==
    \E t \in InFlight("search_stream") :
       /\ t.pc = "events"
       /\ TaskStep(t, "end", TRUE, <<>>, TRUE, t)

----------------------------------------------------------------------------
(* What the terminal, the user and the two backends may do *)

\* chat_chunks[0].height - 2 of the terminal the model runs in
ViewHeights == {6}

K(code) == Key(code, "", FALSE)

Ch(c) == Key("Char", c, FALSE)

Ctrl(c) == Key("Char", c, TRUE)

Source1 == [title |-> "t1", url |-> "u1", content |-> "c1", engine |-> "e1"]

Source2 == [title |-> "t2", url |-> "u2", content |-> "c2", engine |-> "e2"]

Convo1 == [id |-> 1, title |-> <<"c">>]

Provider1 == [id |-> 1, name |-> "web", type_ |-> "searx", is_enabled |-> TRUE]

Model1 == [id |-> "m1", name |-> "M1"]

Model2 == [id |-> "m2", name |-> "M2"]

\* GET /models?provider=..: the lists a provider may answer with
ModelReplies ==
    [p \in {"lmstudio", "openai", "openrouter", "google"} |->
        IF p = "lmstudio" THEN {<<Model1>>} ELSE {<<Model2, Model1>>}]

ConvoReplies == {<<Convo1>>}

ProviderReplies == {<<Provider1>>}

AppReplies == {<<>>}

\* GET /conversations/{id}: a stored transcript, or a reply without "messages"
Transcripts ==
    {[messages |-> Some(<<ChatMessage("user", <<"x">>, <<>>),
                          ChatMessage("assistant", <<"y">>, <<Source1>>)>>)],
     [messages |-> None]}

\* The events a query stream may carry
Evt(name, data) == [name |-> name, data |-> data]

StreamEvents ==
    {Evt("results", Some(<<Source1>>)), Evt("summary-chunk", Some(<<"h">>)),
     Evt("results", None), Evt("summary-chunk", None),
     Evt("error", Some(<<"x">>)), Evt("summary-done", None), Evt("Err", None)}

----------------------------------------------------------------------------
(* Spec: the program from its start, the user switching screens and quitting *)

Next ==
    \/ Draw(ViewHeights)
    \/ TickBranch
    \/ PollIdle
    \/ KeyBranch({K("Tab"), K("Esc"), Ctrl("q"), K("Down")})
    \/ CtrlQDispatch
    \/ RecvBranch
    \/ fetch_apps_task(AppReplies)
    \/ load_search_state_task(ConvoReplies, ProviderReplies)
    \/ fetch_models_task(ModelReplies)

Spec == Init /\ [][Next]_vars

----------------------------------------------------------------------------
(* SpecSearch: the search screen, once the start-up loads have completed *)

\* App after LoadApps and LoadSearchState and their four replies
App_loaded ==
    [App_new EXCEPT !.conversations = <<Convo1>>,
                    !.search_providers = <<Provider1>>,
                    !.models = <<Model1>>,
                    !.selected_model = "m1"]

InitSearch ==
    /\ app = App_loaded
    /\ queue = <<>>
    /\ tasks = EmptyBag
    /\ pc = "draw"
    /\ last = NoLast
    /\ tlast = NoTLast
    /\ run = NoRun

NextSearch ==
    \/ Draw(ViewHeights)
    \/ TickBranch
    \/ KeyBranch({K("Tab"), K("Enter"), Ch("x")})
    \/ RecvBranch
    \/ stream_create({2})
    \/ stream_open
    \/ stream_event(StreamEvents)
    \/ stream_end
    \/ fetch_conversations_task(ConvoReplies)

SpecSearch == InitSearch /\ [][NextSearch]_vars

----------------------------------------------------------------------------
(* SpecSidebar: the search screen with its sidebar, the user typing no query *)

NextSidebar ==
    \/ Draw(ViewHeights)
    \/ TickBranch
    \/ KeyBranch({K("Tab"), K("Esc"), K("Enter"), Ctrl("s")})
    \/ RecvBranch
    \/ fetch_models_task(ModelReplies)

SpecSidebar == InitSearch /\ [][NextSidebar]_vars

----------------------------------------------------------------------------
(* The reducer alone: App::update applied to any Action in any order.  What  *)
(* a call sends and spawns is kept in `last`; the channel and the tasks are  *)
(* not part of these specifications.                                         *)

Deliver(action) ==
    LET r == update(app, action) IN
    /\ Within(r.app, <<>>, EmptyBag)
    /\ Len(r.app.messages) <= MaxMsgs
    /\ app' = r.app
    /\ last' = [action |-> action, send |-> r.send, spawn |-> r.spawn]
    /\ run' = Observe(run, app, action)
    /\ UNCHANGED <<queue, tasks, pc, tlast>>

Deliver_Tick ==
    /\ Deliver(Act("Tick", <<>>))

Deliver_EnterSearchChar ==
    /\ \E c \in {"x", " "} : Deliver(Act("EnterSearchChar", c))

Deliver_DeleteSearchChar ==
    /\ Deliver(Act("DeleteSearchChar", <<>>))

Deliver_SubmitSearch ==
    /\ Deliver(Act("SubmitSearch", <<>>))

Deliver_SearchSourcesReceived ==
    /\ \E s \in {<<Source1, Source2>>} : Deliver(Act("SearchSourcesReceived", s))

Deliver_SearchStreamToken ==
    /\ \E tok \in {<<"h">>, <<"i">>} : Deliver(Act("SearchStreamToken", tok))

Deliver_SearchError ==
    /\ \E e \in {<<"x">>} : Deliver(Act("SearchError", e))

Deliver_SearchDone ==
    /\ Deliver(Act("SearchDone", <<>>))

Deliver_NewConversation ==
    /\ Deliver(Act("NewConversation", <<>>))

\* The reply of a load_conversation task: a LoadConversation came before
Deliver_ConversationLoaded ==
    /\ app.current_convo_id # None
    /\ \E json \in Transcripts : Deliver(Act("ConversationLoaded", json))

Deliver_ScrollChat ==
    /\ \E d \in {-1} : Deliver(Act("ScrollChat", d))

\* SpecChat: the Actions of a query and its stream, and those that replace
\* the transcript under it
NextChat ==
    \/ Deliver_Tick
    \/ Deliver_EnterSearchChar
    \/ Deliver_DeleteSearchChar
    \/ Deliver_SubmitSearch
    \/ Deliver_SearchSourcesReceived
    \/ Deliver_SearchStreamToken
    \/ Deliver_SearchError
    \/ Deliver_SearchDone
    \/ Deliver_NewConversation
    \/ Deliver_ScrollChat

SpecChat == InitSearch /\ [][NextChat]_vars

\* SpecFilter: the Actions of the launcher's list and its filter
AppA == [id |-> <<"1">>, name |-> <<"A", "b">>, description |-> None,
         command |-> <<"c">>, url |-> URL_DEFAULT]

AppB == [id |-> <<"2">>, name |-> <<"b">>, description |-> Some(<<"B", "a">>),
         command |-> <<"c">>, url |-> URL_DEFAULT]

AppC == [id |-> <<"3">>, name |-> <<"B", "B">>, description |-> Some(<<>>),
         command |-> <<"c">>, url |-> URL_DEFAULT]

Deliver_LoadApps ==
    /\ Deliver(Act("LoadApps", <<>>))

Deliver_AppsLoaded ==
    /\ \E apps \in {<<>>, <<AppA, AppB, AppC>>, <<AppC, AppB>>} : Deliver(Act("AppsLoaded", apps))

Deliver_ToggleFilter ==
    /\ Deliver(Act("ToggleFilter", <<>>))

Deliver_EnterFilterChar ==
    /\ \E c \in {"a", "B"} : Deliver(Act("EnterFilterChar", c))

Deliver_BackspaceFilter ==
    /\ Deliver(Act("BackspaceFilter", <<>>))

Deliver_SelectNext ==
    /\ Deliver(Act("SelectNext", <<>>))

Deliver_SelectPrev ==
    /\ Deliver(Act("SelectPrev", <<>>))

Deliver_CloseModal ==
    /\ Deliver(Act("CloseModal", <<>>))

NextFilter ==
    \/ Deliver_LoadApps
    \/ Deliver_AppsLoaded
    \/ Deliver_ToggleFilter
    \/ Deliver_EnterFilterChar
    \/ Deliver_BackspaceFilter
    \/ Deliver_SelectNext
    \/ Deliver_SelectPrev
    \/ Deliver_CloseModal

SpecFilter == InitSearch /\ [][NextFilter]_vars

----------------------------------------------------------------------------
(* The claims *)

RECURSIVE Copies(_)
Copies(S) ==
    IF S = {} THEN 0
    ELSE LET t == CHOOSE x \in S : TRUE IN CopiesIn(t, tasks) + Copies(S \ {t})

\* Stream tasks that have not yet stopped
StreamsInFlight == Copies(InFlight("search_stream"))

\* C1: in every reachable state at most one search-stream task (started by an
\* accepted SubmitSearch and not yet stopped) is in flight.
AtMostOneStreamInFlight == StreamsInFlight <= 1

\* C2: from a state with is_searching false and a non-blank search_input,
\* SubmitSearch, SearchSourcesReceived(S), SearchStreamToken(t1) ..
\* SearchStreamToken(tn), SearchDone, with no other Action in between, leave the
\* last message {assistant, t1 ++ .. ++ tn, S} and is_searching false.
StreamingMerge ==
    run.phase = "done" =>
        /\ app.messages # <<>>
        /\ app.messages[Len(app.messages)] =
               ChatMessage("assistant", run.content, run.sources)
        /\ ~app.is_searching

StreamingMerge_Witness ==
    /\ run.phase = "done"
    /\ Len(run.content) >= 2
    /\ run.content[1] # run.content[2]
    /\ run.sources # <<>>

\* C3: SubmitSearch applied while is_searching is true is ignored: transcript,
\* search_input, is_searching and chat_auto_scroll are unchanged and no stream
\* task is spawned.
SubmitWhileBusyIgnored ==
    [][(last'.action.type = "SubmitSearch" /\ app.is_searching) =>
          /\ app'.messages = app.messages
          /\ app'.search_input = app.search_input
          /\ app'.is_searching = app.is_searching
          /\ app'.chat_auto_scroll = app.chat_auto_scroll
          /\ last'.spawn = <<>>]_vars

SubmitWhileBusyIgnored_Witness ==
    /\ last.action.type = "SubmitSearch"
    /\ last.spawn = <<>>
    /\ app.is_searching
    /\ ~trim_is_empty(app.search_input)
    /\ ~app.chat_auto_scroll

\* C4, as claimed: SearchDone or SearchError(e) delivered while is_searching is
\* false leaves is_searching false and the transcript length unchanged.
CompletionAppendsNothing ==
    [][(last'.action.type \in {"SearchDone", "SearchError"} /\ ~app.is_searching) =>
          /\ ~app'.is_searching
          /\ Len(app'.messages) = Len(app.messages)]_vars

\* C4, amended: while is_searching is false, SearchDone changes nothing, and
\* SearchError(e) leaves is_searching false and appends exactly the one system
\* message "Error: e", changing nothing else.
CompletionWhenIdle ==
    [][~app.is_searching =>
          /\ last'.action.type = "SearchDone" => app' = app
          /\ last'.action.type = "SearchError" =>
                app' = [app EXCEPT !.messages =
                           Append(app.messages,
                                  ChatMessage("system", ErrorPrefix \o last'.action.arg,
                                              <<>>))]]_vars

IsErrorMessage(m) ==
    /\ m.role = "system"
    /\ Len(m.content) > Len(ErrorPrefix)
    /\ SubSeq(m.content, 1, Len(ErrorPrefix)) = ErrorPrefix

\* Two error messages in a row: the second SearchError came with the flag
\* already cleared by the first
CompletionWhenIdle_Witness ==
    /\ last.action.type = "SearchError"
    /\ ~app.is_searching
    /\ Len(app.messages) >= 2
    /\ IsErrorMessage(app.messages[Len(app.messages)])
    /\ IsErrorMessage(app.messages[Len(app.messages) - 1])

\* Two characters that differ at most in case
SameLetter(c, d) == c = d \/ {c, d} = {"a", "A"} \/ {c, d} = {"b", "B"}

\* text holds f as a substring, case ignored
HoldsIgnoringCase(text, f) ==
    \E i \in 0..(Len(text) - Len(f)) : \A k \in 1..Len(f) : SameLetter(text[i + k], f[k])

AppMatches(a, f) ==
    \/ f = <<>>
    \/ HoldsIgnoringCase(a.name, f)
    \/ a.description # None /\ HoldsIgnoringCase(a.description[1], f)

FollowUps == {"NewConversation", "LoadConversation", "LoadSearchState"}

\* An Action the reducer enqueued for itself is still in the channel
FollowUpPending == \E i \in 1..Len(queue) : queue[i].type \in FollowUps

\* C7: an Action's full effect, including that of every follow-up Action it
\* enqueues, is there before any other Action is applied: while a follow-up is
\* in the channel, the next Action the reducer applies is that follow-up.
FollowUpAppliedNext ==
    [][(FollowUpPending /\ last'.action.type # "-") =>
          /\ Head(queue).type \in FollowUps
          /\ last'.action.type = Head(queue).type
          /\ Len(queue') <= Len(queue)]_vars

OneShotKinds ==
    {"fetch_apps", "create_app", "update_app", "delete_app", "launch_app", "adhoc",
     "load_search_state", "fetch_models", "fetch_conversations", "load_conversation"}

\* C8: every one-shot background task has posted exactly one Action when it
\* completes, whether its request succeeded or failed.
ExactlyOneTerminalAction ==
    (tlast.done /\ tlast.task.kind \in OneShotKinds) =>
        tlast.task.posted + Len(tlast.sent) = 1

FailureActions == {"LaunchResult", "SearchError"}

\* C9: every failed background request is turned into a failure Action sent on
\* the channel.
EveryFailureBecomesAnAction ==
    ~tlast.ok =>
        /\ tlast.sent # <<>>
        /\ \A i \in 1..Len(tlast.sent) : tlast.sent[i].type \in FailureActions

\* C10: a stream that has received an `error` event posts no further Action.
NothingPostedAfterErrorEvent ==
    ~(tlast.task.kind = "search_stream" /\ tlast.task.errored /\ tlast.sent # <<>>)

----------------------------------------------------------------------------
\* SpecNav: the Actions that move the focus and the sidebar selections
Deliver_SwitchTab ==
    /\ Deliver(Act("SwitchTab", <<>>))

Deliver_ToggleSearchSidebar ==
    /\ Deliver(Act("ToggleSearchSidebar", <<>>))

Deliver_CycleSearchFocus ==
    /\ Deliver(Act("CycleSearchFocus", <<>>))

Deliver_SidebarNext ==
    /\ Deliver(Act("SidebarNext", <<>>))

Deliver_SidebarPrev ==
    /\ Deliver(Act("SidebarPrev", <<>>))

Deliver_ConversationsLoaded ==
    /\ \E convos \in {<<>>, <<Convo1>>, <<Convo1, [id |-> 2, title |-> <<"d">>]>>} :
          Deliver(Act("ConversationsLoaded", convos))

Deliver_ProvidersLoaded ==
    /\ \E provs \in {<<>>, <<Provider1>>} : Deliver(Act("ProvidersLoaded", provs))

NextNav ==
    \/ Deliver_SwitchTab
    \/ Deliver_ToggleSearchSidebar
    \/ Deliver_CycleSearchFocus
    \/ Deliver_SidebarNext
    \/ Deliver_SidebarPrev
    \/ Deliver_ConversationsLoaded
    \/ Deliver_ProvidersLoaded

SpecNav == InitSearch /\ [][NextNav]_vars

\* C12: CycleSearchFocus maps SearchInput to ChatHistory when the sidebar is
\* Hidden and to SearchSidebar when it is History or Settings, SearchSidebar to
\* ChatHistory, and ChatHistory to SearchInput whatever the sidebar.
FocusCycle ==
    [][last'.action.type = "CycleSearchFocus" =>
          /\ (app.input_mode = "SearchInput" /\ app.search_sidebar = "Hidden")
                => app'.input_mode = "ChatHistory"
          /\ (app.input_mode = "SearchInput" /\ app.search_sidebar \in {"History", "Settings"})
                => app'.input_mode = "SearchSidebar"
          /\ app.input_mode = "SearchSidebar" => app'.input_mode = "ChatHistory"
          /\ app.input_mode = "ChatHistory" => app'.input_mode = "SearchInput"]_vars

\* The focus has just moved to a visible sidebar
FocusCycle_Witness ==
    /\ last.action.type = "CycleSearchFocus"
    /\ app.input_mode = "SearchSidebar"
    /\ app.search_sidebar = "Settings"
    /\ app.current_screen = "Search"

NextSidebarState(sb) ==
    CASE sb = "Hidden" -> "History"
      [] sb = "History" -> "Settings"
      [] sb = "Settings" -> "Hidden"

\* C13: ToggleSearchSidebar cycles Hidden -> History -> Settings -> Hidden, and
\* after it the input mode is SearchSidebar exactly when the new sidebar state
\* is not Hidden and SearchInput exactly when it is Hidden.
SidebarToggle ==
    [][last'.action.type = "ToggleSearchSidebar" =>
          /\ app'.search_sidebar = NextSidebarState(app.search_sidebar)
          /\ app'.input_mode = "SearchSidebar" <=> app'.search_sidebar # "Hidden"
          /\ app'.input_mode = "SearchInput" <=> app'.search_sidebar = "Hidden"]_vars

\* The sidebar has just been hidden again (the focus was on the transcript or
\* the sidebar before, never on the input)
SidebarToggle_Witness ==
    /\ last.action.type = "ToggleSearchSidebar"
    /\ app.search_sidebar = "Hidden"
    /\ app.input_mode = "SearchInput"
    /\ app.current_screen = "Search"

\* C15: with the History sidebar shown and n conversations, SidebarNext maps
\* conversation_idx i to (i+1) mod (n+1) and SidebarPrev maps 0 to n and i > 0
\* to i-1; with the Settings sidebar shown and p search providers the same
\* holds of settings_idx modulo (p+2).
SidebarWrapAround ==
    [][/\ (last'.action.type = "SidebarNext" /\ app.search_sidebar = "History") =>
             app'.conversation_idx =
                 (app.conversation_idx + 1) % (Len(app.conversations) + 1)
       /\ (last'.action.type = "SidebarPrev" /\ app.search_sidebar = "History") =>
             app'.conversation_idx =
                 IF app.conversation_idx = 0 THEN Len(app.conversations)
                 ELSE app.conversation_idx - 1
       /\ (last'.action.type = "SidebarNext" /\ app.search_sidebar = "Settings") =>
             app'.settings_idx =
                 (app.settings_idx + 1) % (Len(app.search_providers) + 2)
       /\ (last'.action.type = "SidebarPrev" /\ app.search_sidebar = "Settings") =>
             app'.settings_idx =
                 IF app.settings_idx = 0 THEN Len(app.search_providers) + 1
                 ELSE app.settings_idx - 1]_vars

\* SidebarPrev has just wrapped from "New Conversation" to the last of two
\* conversations, with the settings selection on the last provider
SidebarWrapAround_Witness ==
    /\ last.action.type = "SidebarPrev"
    /\ app.search_sidebar = "History"
    /\ Len(app.conversations) = 2
    /\ app.conversation_idx = 2
    /\ Len(app.search_providers) = 1
    /\ app.settings_idx = 2

SearchModes == {"SearchInput", "SearchSidebar", "ChatHistory"}

\* C11: in every reachable state whose input mode is SearchInput, SearchSidebar
\* or ChatHistory, an escape key press (which those modes map to SwitchTab)
\* leads to screen Launcher with input mode Normal.
EscapeLeavesSearch ==
    [][(app.input_mode \in SearchModes /\ last'.action.type = "SwitchTab") =>
          /\ app'.current_screen = "Launcher"
          /\ app'.input_mode = "Normal"]_vars

\* C14: the load of the search configuration is one-time: main issues a
\* LoadSearchState before its loop, so no SwitchTab issues another one; and
\* SwitchTab from Launcher always sets screen Search and mode SearchInput.
SearchStateLoadedOnce ==
    [][last'.action.type = "SwitchTab" =>
          /\ \A i \in 1..Len(last'.send) : last'.send[i].type # "LoadSearchState"
          /\ app.current_screen = "Launcher" =>
                (app'.current_screen = "Search" /\ app'.input_mode = "SearchInput")]_vars

----------------------------------------------------------------------------
\* SpecReload: start-up, with the sidebar keys and a server whose list of
\* conversations differs from one request to the next
NextReload ==
    \/ Draw(ViewHeights)
    \/ KeyBranch({K("Tab"), Ctrl("s"), K("Down")})
    \/ RecvBranch
    \/ fetch_apps_task(AppReplies)
    \/ load_search_state_task({<<>>, <<Convo1>>}, ProviderReplies)
    \/ fetch_models_task(ModelReplies)

SpecReload == Init /\ [][NextReload]_vars

\* C16: in every reachable state conversation_idx is in 0..=len(conversations)
\* and settings_idx is in 0..(2 + len(search_providers)), also after
\* ConversationsLoaded or ProvidersLoaded delivered a shorter list.
SidebarIndicesInRange ==
    /\ app.conversation_idx \in 0..Len(app.conversations)
    /\ app.settings_idx \in 0..(Len(app.search_providers) + 1)

----------------------------------------------------------------------------
\* SpecScroll: the Search screen, its focus and the manual scroll of the
\* transcript, with nothing in the channel
NextScroll ==
    \/ Draw(ViewHeights)
    \/ TickBranch
    \/ KeyBranch({K("Tab"), K("Esc"), Ctrl("s"), K("Down"), K("Up")})

SpecScroll == InitSearch /\ [][NextScroll]_vars

\* total_lines.saturating_sub(view_height) for the transcript of s
MaxScrollOf(s, h) ==
    LET T == messages_visual_len(s.messages) IN IF T > h THEN T - h ELSE 0

\* x clamped to [lo, hi]
Clamp(x, lo, hi) == IF x < lo THEN lo ELSE IF x > hi THEN hi ELSE x

\* C17: ScrollChat(d) sets chat_auto_scroll to false and leaves chat_scroll
\* equal to the previous offset plus d clamped to [0, max_scroll], where
\* max_scroll = max(0, T - H).
ManualScrollClamped ==
    [][last'.action.type = "ScrollChat" =>
          /\ ~app'.chat_auto_scroll
          /\ \E h \in ViewHeights :
                app'.chat_scroll =
                    Clamp(app.chat_scroll + last'.action.arg, 0, MaxScrollOf(app, h))]_vars

\* C20: the application state changes only where the reducer applies an
\* Action: no key handler and no redraw changes a field of it.
StateChangesOnlyInReducer ==
    [][app' # app => last'.action.type # "-"]_vars

\* C19: character-input Actions applied outside their text-entry mode leave
\* the whole application state unchanged: EnterSearchChar / DeleteSearchChar
\* outside SearchInput, EnterFilterChar / BackspaceFilter outside Filtering,
\* FormChar / FormBackspace outside Editing.
CharInputIgnoredOutsideMode ==
    [][(\/ /\ last'.action.type \in {"EnterSearchChar", "DeleteSearchChar"}
           /\ app.input_mode # "SearchInput"
        \/ /\ last'.action.type \in {"EnterFilterChar", "BackspaceFilter"}
           /\ app.input_mode # "Filtering"
        \/ /\ last'.action.type \in {"FormChar", "FormBackspace"}
           /\ app.input_mode # "Editing")
          => app' = app]_vars

----------------------------------------------------------------------------
\* SpecAuto: the Actions that replace or extend the transcript, and the manual
\* scroll that switches auto-follow off
Deliver_LoadConversation ==
    /\ \E id \in {1} : Deliver(Act("LoadConversation", id))

\* One character and one token are enough here: what is typed and streamed
\* plays no part in the auto-follow flag
Deliver_EnterSearchChar_x ==
    /\ Deliver(Act("EnterSearchChar", "x"))

Deliver_SearchStreamToken_h ==
    /\ Deliver(Act("SearchStreamToken", <<"h">>))

NextAuto ==
    \/ Deliver_ScrollChat
    \/ Deliver_NewConversation
    \/ Deliver_LoadConversation
    \/ Deliver_ConversationLoaded
    \/ Deliver_EnterSearchChar_x
    \/ Deliver_SubmitSearch
    \/ Deliver_SearchSourcesReceived
    \/ Deliver_SearchStreamToken_h
    \/ Deliver_SearchError
    \/ Deliver_SearchDone

SpecAuto == InitSearch /\ [][NextAuto]_vars

\* SubmitSearch is accepted in state s
SubmitAccepted(s) == ~trim_is_empty(s.search_input) /\ ~s.is_searching

\* C18, as claimed: chat_auto_scroll changes from false to true only when
\* NewConversation, LoadConversation or an accepted SubmitSearch is applied; no
\* task-result or stream Action re-enables it.
AutoFollowReenabledByResetOrSubmit ==
    [][(~app.chat_auto_scroll /\ app'.chat_auto_scroll) =>
          \/ last'.action.type \in {"NewConversation", "LoadConversation"}
          \/ last'.action.type = "SubmitSearch" /\ SubmitAccepted(app)]_vars

\* C18, amended: chat_auto_scroll changes from false to true only when
\* NewConversation, LoadConversation, ConversationLoaded or an accepted
\* SubmitSearch is applied; no stream Action re-enables it.
AutoFollowReenabled ==
    [][(~app.chat_auto_scroll /\ app'.chat_auto_scroll) =>
          \/ last'.action.type \in {"NewConversation", "LoadConversation",
                                    "ConversationLoaded"}
          \/ last'.action.type = "SubmitSearch" /\ SubmitAccepted(app)]_vars

\* A stored transcript has just arrived while the user had scrolled, and
\* auto-follow is on again
AutoFollowReenabled_Witness ==
    /\ last.action.type = "ConversationLoaded"
    /\ app.chat_auto_scroll
    /\ Len(app.messages) = 2
    /\ app.messages[2].role = "assistant"

----------------------------------------------------------------------------
(* The stream's events whose payload does not decode *)

\* C21: a results or summary-chunk event whose payload is malformed makes the
\* stream task post a SearchError, as an explicit error event does
MalformedPayloadPostsError ==
    (/\ tlast.task.kind = "search_stream"
     /\ tlast.event \in {"results", "summary-chunk"}
     /\ ~tlast.ok) =>
        /\ Len(tlast.sent) = 1
        /\ tlast.sent[1].type = "SearchError"

----------------------------------------------------------------------------
(* SpecModal: the launcher or the search screen with a reload of the apps  *)
(* waiting in the queue, the user opening and closing the launcher's modals *)

RECURSIVE after_keys(_, _)

\* The loaded program after the keys in `keys` were pressed one by one
after_keys(s, keys) ==
    IF keys = <<>> THEN s
    ELSE after_keys(update(s, key_action(s, Head(keys))[1]).app, Tail(keys))

\* The loaded program on the launcher, on the search screen's sidebar
\* (Tab, Ctrl+s) or on its transcript (Tab, Tab); the LoadApps a finished
\* create_app task sent is still in the queue
InitModal ==
    /\ app \in {App_loaded,
                after_keys(App_loaded, <<K("Tab"), Ctrl("s")>>),
                after_keys(App_loaded, <<K("Tab"), K("Tab")>>)}
    /\ queue = <<Act("LoadApps", <<>>)>>
    /\ tasks = EmptyBag
    /\ pc = "draw"
    /\ last = NoLast
    /\ tlast = NoTLast
    /\ run = NoRun

NextModal ==
    \/ Draw(ViewHeights)
    \/ KeyBranch({Ch("/"), Ch("a"), Ch(":"), K("Esc")})
    \/ RecvBranch
    \/ fetch_apps_task(AppReplies)

SpecModal == InitModal /\ [][NextModal]_vars

ModalModes == {"Editing", "Filtering", "AdHocCmd"}

----------------------------------------------------------------------------
(* SpecQuit: the program from its start, the user switching to the search   *)
(* screen and quitting with Ctrl+q                                          *)

NextQuit ==
    \/ Draw(ViewHeights)
    \/ KeyBranch({K("Tab"), Ctrl("q")})
    \/ CtrlQDispatch
    \/ RecvBranch
    \/ fetch_apps_task(AppReplies)
    \/ load_search_state_task(ConvoReplies, ProviderReplies)
    \/ fetch_models_task(ModelReplies)

SpecQuit == Init /\ [][NextQuit]_vars

\* C23: after Quit is applied should_quit is true; it never becomes false
\* again; the loop is left at the end of that iteration (only the rest of a
\* Ctrl+q key event still runs), and nothing is taken from the queue any more
QuitIsFinal ==
    /\ [](last.action.type = "Quit" => app.should_quit)
    /\ [](app.should_quit => pc \in {"ctrl_q", "exit"})
    /\ [][app.should_quit =>
             /\ app'.should_quit
             /\ Len(queue') >= Len(queue)
             /\ SubSeq(queue', 1, Len(queue)) = queue]_vars

\* The loop was left with an Action still waiting in the queue
QuitIsFinal_Witness ==
    /\ app.should_quit
    /\ pc = "exit"
    /\ queue # <<>>

----------------------------------------------------------------------------
(* Changing the active conversation *)

\* C24: right after NewConversation or LoadConversation(id) the transcript is
\* exactly one system message, chat_auto_scroll is true and current_convo_id
\* is None, respectively Some(id)
ConversationReset ==
    last.action.type \in {"NewConversation", "LoadConversation"} =>
        /\ Len(app.messages) = 1
        /\ app.messages[1].role = "system"
        /\ app.chat_auto_scroll
        /\ app.current_convo_id =
              IF last.action.type = "NewConversation" THEN None
              ELSE Some(last.action.arg)

\* A conversation was loaded while a query was streaming into a transcript
\* the user had scrolled: the reset removed the query's messages
ConversationReset_Witness ==
    /\ last.action.type = "LoadConversation"
    /\ app.is_searching
    /\ app.current_convo_id = Some(1)
    /\ Len(app.messages) = 1

----------------------------------------------------------------------------
(* SpecStream: the reducer receiving what a query stream sends, with several *)
(* source batches, into transcripts that hold an earlier answer              *)

Deliver_SearchSourcesReceived_batch ==
    /\ \E sources \in {<<Source1>>, <<Source2>>, <<>>} :
          Deliver(Act("SearchSourcesReceived", sources))

\* The reply to LoadConversation: a conversation that holds one answer
Deliver_ConversationLoaded_answer ==
    /\ app.current_convo_id # None
    /\ Deliver(Act("ConversationLoaded",
                   [messages |-> Some(<<ChatMessage("assistant", <<"y">>, <<Source1>>)>>)]))

NextStream ==
    \/ Deliver_EnterSearchChar_x
    \/ Deliver_SubmitSearch
    \/ Deliver_SearchSourcesReceived_batch
    \/ Deliver_SearchStreamToken_h
    \/ Deliver_SearchError
    \/ Deliver_SearchDone
    \/ Deliver_LoadConversation
    \/ Deliver_ConversationLoaded_answer

SpecStream == InitSearch /\ [][NextStream]_vars

\* The last message is an assistant message
LastIsAssistant(s) ==
    s.messages # <<>> /\ s.messages[Len(s.messages)].role = "assistant"

\* C25: SearchSourcesReceived(S) makes the sources of the open assistant
\* message exactly S, whatever sources an earlier batch left there, and
\* leaves the message's content as it was
SourcesReplaced ==
    [][(last'.action.type = "SearchSourcesReceived" /\ LastIsAssistant(app)) =>
          /\ Len(app'.messages) = Len(app.messages)
          /\ app'.messages[Len(app.messages)].sources = last'.action.arg
          /\ app'.messages[Len(app.messages)].content =
                app.messages[Len(app.messages)].content]_vars

\* A batch arrived for an answer that holds streamed text and whose sources
\* (loaded with it, or set by an earlier batch) it replaced by another one
SourcesReplaced_Witness ==
    /\ last.action.type = "SearchSourcesReceived"
    /\ LastIsAssistant(app)
    /\ app.messages[Len(app.messages)].sources = <<Source2>>
    /\ app.messages[Len(app.messages)].content = <<"y", "h">>

\* C26: SearchStreamToken and SearchSourcesReceived change nothing but the
\* last message, and that only when it is an assistant message: the other
\* messages, the transcript's length, is_searching, chat_auto_scroll and
\* every other field stay as they were
StreamWritesOnlyOpenMessage ==
    [][last'.action.type \in {"SearchStreamToken", "SearchSourcesReceived"} =>
          /\ app' = [app EXCEPT !.messages = app'.messages]
          /\ Len(app'.messages) = Len(app.messages)
          /\ \A i \in 1..(Len(app.messages) - 1) : app'.messages[i] = app.messages[i]
          /\ ~LastIsAssistant(app) => app'.messages = app.messages
          /\ LastIsAssistant(app) =>
                app'.messages[Len(app.messages)].role = "assistant"]_vars

\* A token was appended to the answer of a query while the transcript holds
\* an earlier answer, which kept its text
StreamWritesOnlyOpenMessage_Witness ==
    /\ last.action.type = "SearchStreamToken"
    /\ Len(app.messages) = 3
    /\ app.messages[1] = ChatMessage("assistant", <<"y">>, <<Source1>>)
    /\ app.messages[3].role = "assistant"
    /\ app.messages[3].content = <<"h">>

----------------------------------------------------------------------------
(* The end of a query stream *)

\* C27: a query that is running comes to an end: while is_searching is true
\* its stream task is still in flight, or the SearchDone or SearchError that
\* clears is_searching is waiting in the queue
BusyStreamCompletes ==
    app.is_searching =>
        \/ InFlight("search_stream") # {}
        \/ \E i \in 1..Len(queue) : queue[i].type \in {"SearchDone", "SearchError"}

----------------------------------------------------------------------------
(* SpecModels: the reducer from the program's start, the user changing the   *)
(* LLM provider and the model while model lists arrive in any order          *)

Deliver_SidebarSelect ==
    /\ Deliver(Act("SidebarSelect", <<>>))

Deliver_ModelsLoaded ==
    /\ \E models \in {<<>>, <<Model1>>, <<Model2, Model1>>} :
          Deliver(Act("ModelsLoaded", models))

NextModels ==
    \/ Deliver_SwitchTab
    \/ Deliver_ToggleSearchSidebar
    \/ Deliver_SidebarNext
    \/ Deliver_SidebarSelect
    \/ Deliver_ModelsLoaded

SpecModels == Init /\ [][NextModels]_vars

\* selected_model names a model of the list, or is "default" with no models
ModelSelected(s) ==
    \/ \E i \in 1..Len(s.models) : s.models[i].id = s.selected_model
    \/ s.models = <<>> /\ s.selected_model = "default"

\* C28: once a model list has been delivered, selected_model is the id of an
\* element of models, or "default" when the list delivered last was empty,
\* whatever provider changes and model lists follow in whatever order
ModelSelectionSurvivesStaleLoads ==
    [][(ModelSelected(app) \/ last'.action.type = "ModelsLoaded") =>
          ModelSelected(app')]_vars

\* The provider was changed and the model switched within a list of two
ModelSelectionSurvivesStaleLoads_Witness ==
    /\ last.action.type = "SidebarSelect"
    /\ app.selected_llm_provider = "openrouter"
    /\ app.models = <<Model2, Model1>>
    /\ app.selected_model = "m1"

----------------------------------------------------------------------------
(* The queue at a redraw *)

\* C29: whenever the loop is about to redraw, no Action is waiting in the
\* queue
QueueDrainedBeforeRedraw == pc = "draw" => queue = <<>>

----------------------------------------------------------------------------
(* The launcher's selection after the list changed *)

\* C30: right after EnterFilterChar, BackspaceFilter or AppsLoaded the
\* launcher's selection index apps_idx is 0
SelectionResetByFilter ==
    last.action.type \in {"EnterFilterChar", "BackspaceFilter", "AppsLoaded"} =>
        app.apps_idx = 0

\* A character was deleted from the filter, and the list it left has
\* several entries the selection could have been on
SelectionResetByFilter_Witness ==
    /\ last.action.type = "BackspaceFilter"
    /\ app.filter_input # <<>>
    /\ Len(app.filtered_apps) >= 2
    /\ app.apps_idx = 0

----------------------------------------------------------------------------
(* The screen and the input mode *)

\* C31: in every reachable state the input mode is SearchInput, SearchSidebar
\* or ChatHistory exactly when the current screen is Search
ScreenMatchesMode ==
    (app.input_mode \in SearchModes) <=> (app.current_screen = "Search")

----------------------------------------------------------------------------
(* SpecStale: a first query is streaming (its conversation was created as 2) *)
(* while the user picks entries of the History sidebar; replies arrive in    *)
(* any order                                                                 *)

\* The state after Tab, x, Enter, Ctrl+s, the stream task's create and open
\* steps and the ConversationCreated(2) it sent
InitStale ==
    /\ app = update(after_keys(App_loaded,
                               <<K("Tab"), Ch("x"), K("Enter"), Ctrl("s")>>),
                    Act("ConversationCreated", 2)).app
    /\ queue = <<>>
    /\ tasks = SetToBag({[Task("search_stream", None, "") EXCEPT
                             !.pc = "events", !.id = Some(2)]})
    /\ pc = "draw"
    /\ last = NoLast
    /\ tlast = NoTLast
    /\ run = NoRun

NextStale ==
    \/ Draw(ViewHeights)
    \/ KeyBranch({K("Down"), K("Enter")})
    \/ RecvBranch
    \/ stream_event({Evt("summary-chunk", Some(<<"h">>)), Evt("summary-done", None)})
    \/ stream_end
    \/ load_conversation_task(Transcripts)

SpecStale == InitStale /\ [][NextStale]_vars

\* The answer stored in the conversation the backend returns
StoredAnswer == ChatMessage("assistant", <<"y">>, <<Source1>>)

\* C32: what a stream sends is merged only into the assistant message of the
\* SubmitSearch that started it.  The one stream of SpecStale writes "h"
\* only, so a message equal to StoredAnswer was loaded by ConversationLoaded:
\* no SearchStreamToken or SearchSourcesReceived step changes such a message
StreamMergesOnlyIntoOwnMessage ==
    [][last'.action.type \in {"SearchStreamToken", "SearchSourcesReceived"} =>
          \A i \in 1..Len(app.messages) :
             app.messages[i] = StoredAnswer =>
                /\ i <= Len(app'.messages)
                /\ app'.messages[i] = StoredAnswer]_vars

\* No conversation load is under way: none in flight, none asked for or
\* answered in the queue
LoadsSettled ==
    /\ InFlight("load_conversation") = {}
    /\ \A i \in 1..Len(queue) :
          queue[i].type \notin {"LoadConversation", "ConversationLoaded", "NewConversation"}

\* C33: once all conversation loads have completed the transcript is that of
\* the conversation current_convo_id names: with current_convo_id None (a new
\* conversation) it holds no message of a stored conversation
TranscriptIsCurrent ==
    (LoadsSettled /\ app.current_convo_id = None) =>
        \A i \in 1..Len(app.messages) : app.messages[i] # StoredAnswer

----------------------------------------------------------------------------
(* The model list and the provider *)

\* C34: once all model fetches have completed (none in flight, no ModelsLoaded
\* in the queue), models is a list the backend answers with for the selected
\* provider; stated for the states in which the last completion has just
\* been applied
ModelsOfSelectedProvider ==
    (/\ last.action.type = "ModelsLoaded"
     /\ InFlight("fetch_models") = {}
     /\ \A i \in 1..Len(queue) : queue[i].type # "ModelsLoaded") =>
        app.models \in ModelReplies[app.selected_llm_provider]

----------------------------------------------------------------------------
(* The launcher's selection *)

\* C35: apps_idx is 0 when filtered_apps is empty and below its length
\* otherwise; SelectNext and SelectPrev move the selection by one, wrapping
\* around within filtered_apps, and change nothing when it is empty
SelectionInRange ==
    /\ [](IF app.filtered_apps = <<>> THEN app.apps_idx = 0
          ELSE app.apps_idx < Len(app.filtered_apps))
    /\ [][last'.action.type = "SelectNext" =>
             IF app.filtered_apps = <<>> THEN app' = app
             ELSE app' = [app EXCEPT !.apps_idx =
                            IF app.apps_idx = Len(app.filtered_apps) - 1 THEN 0
                            ELSE app.apps_idx + 1]]_vars
    /\ [][last'.action.type = "SelectPrev" =>
             IF app.filtered_apps = <<>> THEN app' = app
             ELSE app' = [app EXCEPT !.apps_idx =
                            IF app.apps_idx = 0 THEN Len(app.filtered_apps) - 1
                            ELSE app.apps_idx - 1]]_vars

\* SelectNext wrapped from the last of the three entries of an unfiltered
\* list to the first
SelectionInRange_Witness ==
    /\ last.action.type = "SelectNext"
    /\ Len(app.filtered_apps) = 3
    /\ app.apps_idx = 0

----------------------------------------------------------------------------
(* The end of a load of the apps *)

\* C36: a load of the apps comes to an end: while is_loading_apps is true the
\* fetch task is still in flight, or the AppsLoaded or LaunchResult it sent
\* is waiting in the queue and clears the flag
LoadingAppsCompletes ==
    app.is_loading_apps =>
        \/ InFlight("fetch_apps") # {}
        \/ \E i \in 1..Len(queue) : queue[i].type \in {"AppsLoaded", "LaunchResult"}

----------------------------------------------------------------------------
(* The launcher log: LaunchSelected and LaunchResult applied to logs of any  *)
(* length the program can have built, up to and beyond the cap of 100 lines. *)

MaxDeliveries == 16

\* App::new's log after k LaunchResults; the j-th carries what launch_app's
\* task formats as "Success:\n<stdout>" for a stdout of j - 1 lines, shortened
\* to one character per line
RECURSIVE LogAfter(_)
LogAfter(k) ==
    IF k = 0 THEN App_new.launcher_logs
    ELSE LaunchResult([App_new EXCEPT !.launcher_logs = LogAfter(k - 1)],
                      <<"S">> \o [i \in 1..(2 * (k - 1)) |-> IF i % 2 = 1 THEN "\n" ELSE "o"]
                     ).app.launcher_logs

InitLogs ==
    /\ \E k \in 0..MaxDeliveries :
          app = [update(App_new, Act("AppsLoaded", <<AppA>>)).app
                    EXCEPT !.launcher_logs = LogAfter(k)]
    /\ queue = <<>>
    /\ tasks = EmptyBag
    /\ pc = "draw"
    /\ last = NoLast
    /\ tlast = NoTLast
    /\ run = NoRun

\* Enter on the selected app, once
Log_LaunchSelected ==
    /\ last = NoLast
    /\ LET r == update(app, Act("LaunchSelected", <<>>)) IN
       /\ app' = r.app
       /\ last' = [action |-> Act("LaunchSelected", <<>>), send |-> r.send, spawn |-> r.spawn]
    /\ UNCHANGED <<queue, tasks, pc, tlast, run>>

\* The LaunchResult of a launch, or of any other task that reports through it;
\* the longest message is "Success:" and a stdout of 100 lines
Log_LaunchResult ==
    /\ last.action.type \in {"-", "LaunchSelected"}
    /\ \E msg \in {<<>>, <<"e">>, <<"o", "\n">>, <<"S", "\n", "o">>,
                    <<"S">> \o [i \in 1..(2 * LOG_CAP) |-> IF i % 2 = 1 THEN "\n" ELSE "o"]} :
          LET r == update(app, Act("LaunchResult", msg)) IN
          /\ app' = r.app
          /\ last' = [action |-> Act("LaunchResult", msg), send |-> r.send, spawn |-> r.spawn]
    /\ UNCHANGED <<queue, tasks, pc, tlast, run>>

SpecLogs == InitLogs /\ [][Log_LaunchSelected \/ Log_LaunchResult]_vars

\* C37, as stated: right after a LaunchResult the log holds at most 100 lines,
\* all the lines of the delivered message are its tail, and before them come
\* the most recent lines of the old log, in order.
LogEndsWithWholeMessage ==
    [][last'.action.type = "LaunchResult" =>
          LET new  == app'.launcher_logs
              old  == app.launcher_logs
              ls   == lines(last'.action.arg)
              kept == Len(new) - Len(ls)
          IN /\ Len(new) <= LOG_CAP
             /\ kept >= 0
             /\ kept <= Len(old)
             /\ SubSeq(new, kept + 1, Len(new)) = ls
             /\ SubSeq(new, 1, kept) = SubSeq(old, Len(old) - kept + 1, Len(old))]_vars

\* C37: right after a LaunchResult the log is the last 100 lines of the old
\* log followed by the message's lines (all of them when there are fewer than
\* 100): line for line from the end, and nothing else.
LogKeepsMostRecent ==
    [][last'.action.type = "LaunchResult" =>
          LET new == app'.launcher_logs
              all == app.launcher_logs \o lines(last'.action.arg)
              n   == Len(new)
          IN /\ n = (IF Len(all) < LOG_CAP THEN Len(all) ELSE LOG_CAP)
             /\ \A i \in 1..n : new[n - i + 1] = all[Len(all) - i + 1]]_vars

\* A LaunchResult was applied to a full log and pushed its oldest lines out
LogKeepsMostRecent_Witness ==
    /\ last.action.type = "LaunchResult"
    /\ lines(last.action.arg) = <<<<"S">>, <<"o">>>>
    /\ Len(app.launcher_logs) = LOG_CAP
    /\ app.launcher_logs[1] # <<"Ready.">>
    /\ SubSeq(app.launcher_logs, LOG_CAP - 1, LOG_CAP) = <<<<"S">>, <<"o">>>>

====
